---- MODULE Spec2Model ----
(***************************************************************************)
(* Triage, routing and crisis-escalation engine of TheraSage (backend2).   *)
(*                                                                         *)
(* The model has three parts, all over the same state:                     *)
(*   - the crisis-alert store and the route handlers that mutate it        *)
(*     (routes/crisis.py, routes/therapist_dashboard.py,                   *)
(*     routes/therapist_session.py);                                       *)
(*   - the crisis event of a turn: alert creation and responder assignment *)
(*     (crisis_alert_manager.py), one database statement per step, so that *)
(*     two events served by different workers interleave as their          *)
(*     statements do against the shared database;                          *)
(*   - the turn pipeline of ai_agent.py (analysis, context depth, pattern  *)
(*     detection, routing, the three reply nodes, the result).             *)
(*                                                                         *)
(* Conventions: 0 stands for NULL in ids and timestamps; the scores are     *)
(* Python floats, kept as a decimal in tenths plus the rounding error of   *)
(* the binary64 arithmetic; strings of free text are tokens together with  *)
(* the table of keywords each token contains.                              *)
(***************************************************************************)
EXTENDS Integers, Sequences, FiniteSets, TLC

VARIABLES
    alerts,          \* crisis_alerts table: sequence of rows, id = index
    sessions,        \* therapist_sessions table: sequence of rows, id = index
    clock,           \* datetime.utcnow(), advanced by every handled request
    response,        \* the HTTP response of the last route handler
    therapists,      \* therapists table (read-only for the engine)
    total_messages,  \* ChatSession.total_messages of the session (NoSession:
                     \* the row of the session does not exist)
    summaries,       \* conversation_summary of the user's sessions
    messages,        \* chat_messages table: the rows of the session
    pc,              \* position of each turn
    loc              \* local state of each turn (the workflow state dict)

vars == <<alerts, sessions, clock, response, therapists, total_messages,
          summaries, messages, pc, loc>>

(***************************************************************************)
(* Bounds                                                                  *)
(***************************************************************************)
MaxClock == 4
MaxSessions == 2
MaxMessages == 9
MaxTherapists == 2
MaxSends == 1

\* two turns, each of its own user (both users of the same college)
Turns == {1, 2}
Null == 0
\* the value of total_messages when the session's row is deleted
NoSession == -1

(***************************************************************************)
(* Enumerations of models.py                                               *)
(***************************************************************************)
RiskLevel == {"low", "medium", "high", "critical"}
CrisisType == {"suicide_ideation", "self_harm", "severe_depression",
               "anxiety_panic", "substance_abuse", "eating_disorder"}
SessionStatus == {"scheduled", "in_progress", "completed", "cancelled", "no_show"}
TherapistRole == {"counselor", "psychologist", "psychiatrist",
                  "crisis_specialist", "supervisor"}
AlertStatus == {"pending", "acknowledged", "escalated", "resolved"}

HighOrCritical == {"high", "critical"}
\* (variant: the count leaves out the alerts already acknowledged)
ActiveAlertStatusUnacknowledged == {"pending", "escalated"}
\* crisis_alert_manager.py line 214
ActiveAlertStatus == {"pending", "acknowledged", "escalated"}
\* (variant: a completed session still counts)
ActiveSessionStatusWithCompleted == {"scheduled", "in_progress", "completed"}

ActiveSessionStatus == {"scheduled", "in_progress"}

(***************************************************************************)
(* Free text.  A risk factor, a concern or a specialization is a token;    *)
(* KeywordsIn gives the keywords of the engine's vocabularies that occur   *)
(* in the lower-cased token as substrings ('x in text' in the source).     *)
(***************************************************************************)
FactorTokens == {"hopelessness", "kill myself", "cutting", "panic attacks",
                 "hurt myself", "drinking"}
\* an element of a JSON list that is no string (a number, an object)
NonString == "<17>"
TagTokens == {"crisis intervention", "cbt", "depression", "suicide prevention"}

KeywordsIn(tok) ==
    CASE tok = "hopelessness"        -> {}
      [] tok = "kill myself"         -> {"kill"}
      [] tok = "cutting"             -> {"cut", "cutting"}
      [] tok = "drinking"            -> {"drinking"}
      [] tok = "panic attacks"       -> {"panic"}
      [] tok = "hurt myself"         -> {"hurt myself"}
      [] tok = "crisis intervention" -> {"crisis"}
      [] tok = "cbt"                 -> {"cbt"}
      [] tok = "depression"          -> {"depression"}
      [] tok = "suicide prevention"  -> {"suicide"}
      [] OTHER                       -> {}

\* any(word in " ".join(tokens).lower() for word in words)
AnyIn(words, toks) ==
    \E i \in 1..Len(toks) : KeywordsIn(toks[i]) \cap words # {}

\* 'keyword in specializations_text' for a therapist's set of tags
InTags(kw, tags) == \E t \in tags : kw \in KeywordsIn(t)

(***************************************************************************)
(* The analysis dict.  keys is the set of keys present in the dict; a key  *)
(* that is absent keeps a fixed filler value.  BadNum stands for a JSON    *)
(* value that is not a number (a string, null).  kind = "non_object" is a  *)
(* JSON document that is not an object (a list, a number).                 *)
(***************************************************************************)
BadNum == -1

Get(a, k, default) == IF k \in a.keys THEN a[k] ELSE default

AnalysisKeys == {"risk_score", "urgency_level", "risk_factors",
                 "cognitive_distortions", "immediate_action_needed",
                 "emotional_state", "main_concerns", "conversation_needs"}

\* ai_agent.py 305-315: the fallback analysis of _comprehensive_analysis
DefaultAnalysis ==
    [kind |-> "object",
     keys |-> AnalysisKeys,
     emotional_state |-> "stressed",
     urgency_level |-> 3,
     main_concerns |-> <<"general stress">>,
     cognitive_distortions |-> <<>>,
     risk_score |-> 0,
     risk_factors |-> <<>>,
     immediate_action_needed |-> FALSE,
     conversation_needs |-> "support"]

\* ai_agent.py 756-762: the analysis of the workflow-error fallback result
WorkflowFallbackAnalysis ==
    [kind |-> "object",
     keys |-> {"emotional_state", "urgency_level", "main_concerns",
               "cognitive_distortions", "risk_factors"},
     emotional_state |-> "neutral",
     urgency_level |-> 3,
     main_concerns |-> <<>>,
     cognitive_distortions |-> <<>>,
     risk_score |-> 0,
     risk_factors |-> <<>>,
     immediate_action_needed |-> FALSE,
     conversation_needs |-> "support"]

\* state.get("analysis", {}) when the key was never set
EmptyAnalysis ==
    [kind |-> "object",
     keys |-> {},
     emotional_state |-> "neutral",
     urgency_level |-> 3,
     main_concerns |-> <<>>,
     cognitive_distortions |-> <<>>,
     risk_score |-> 0,
     risk_factors |-> <<>>,
     immediate_action_needed |-> FALSE,
     conversation_needs |-> "support"]

(***************************************************************************)
(* Crisis Classifier (crisis_alert_manager.py)                             *)
(***************************************************************************)
\* (variant: the self-harm test comes first)
determine_crisis_type_self_harm_first(risk_factors, main_concerns) ==
    LET text == risk_factors \o main_concerns IN
    IF AnyIn({"cut", "hurt myself", "self-harm", "harm myself"}, text)
        THEN "self_harm"
    ELSE IF AnyIn({"suicide", "kill", "death", "die", "end it all"}, text)
        THEN "suicide_ideation"
    ELSE IF AnyIn({"panic", "anxiety attack", "can't breathe"}, text)
        THEN "anxiety_panic"
    ELSE IF AnyIn({"drugs", "alcohol", "substance", "drinking"}, text)
        THEN "substance_abuse"
    ELSE IF AnyIn({"eating", "food", "weight", "starving"}, text)
        THEN "eating_disorder"
    ELSE "severe_depression"

\* _determine_crisis_type
determine_crisis_type(risk_factors, main_concerns) ==
    LET text == risk_factors \o main_concerns IN
    IF AnyIn({"suicide", "kill", "death", "die", "end it all"}, text)
        THEN "suicide_ideation"
    ELSE IF AnyIn({"cut", "hurt myself", "self-harm", "harm myself"}, text)
        THEN "self_harm"
    ELSE IF AnyIn({"panic", "anxiety attack", "can't breathe"}, text)
        THEN "anxiety_panic"
    ELSE IF AnyIn({"drugs", "alcohol", "substance", "drinking"}, text)
        THEN "substance_abuse"
    ELSE IF AnyIn({"eating", "food", "weight", "starving"}, text)
        THEN "eating_disorder"
    ELSE "severe_depression"

\* _calculate_risk_level, the base level
BaseRisk(risk_score) ==
    IF risk_score >= 9 THEN "critical"
    ELSE IF risk_score >= 7 THEN "high"
    ELSE IF risk_score >= 4 THEN "medium"
    ELSE "low"

\* (variant: a high-severity keyword sets the level to high)
calculate_risk_level_keyword_sets_high(risk_score, risk_factors, analysis) ==
    LET base == BaseRisk(risk_score)
        bumped == IF Get(analysis, "immediate_action_needed", FALSE)
                  THEN (IF base = "medium" THEN "high"
                        ELSE IF base = "low" THEN "medium"
                        ELSE base)
                  ELSE base
    IN  IF AnyIn({"suicide", "kill", "death", "hurt myself", "end it all"},
                 risk_factors)
        THEN "high"
        ELSE bumped

\* _calculate_risk_level
calculate_risk_level(risk_score, risk_factors, analysis) ==
    LET base == BaseRisk(risk_score)
        bumped == IF Get(analysis, "immediate_action_needed", FALSE)
                  THEN (IF base = "medium" THEN "high"
                        ELSE IF base = "low" THEN "medium"
                        ELSE base)
                  ELSE base
    IN  IF AnyIn({"suicide", "kill", "death", "hurt myself", "end it all"},
                 risk_factors)
           /\ bumped \in {"low", "medium"}
        THEN "high"
        ELSE bumped

(***************************************************************************)
(* Python floats (IEEE 754 binary64, round to nearest, ties to even).      *)
(* A float x is the record [t, e] with x = t/10 + e * u, u = 2^-56 / 5:    *)
(* t is the decimal the arithmetic would give in exact tenths and e the    *)
(* accumulated rounding error.  0.1 * 2^52 = 2^51 / 5, so a decimal t/10   *)
(* lies r fifths of an ulp above a binary64 number, with                   *)
(* r = (t * 2^(51-b)) mod 5 in the binade b of t/10, and every binary64    *)
(* number of magnitude at least 2^-4 differs from t/10 by whole units u.   *)
(* Whenever e # 0 here, t is no multiple of 5, hence t/10 no power of two, *)
(* and the binade of x is the binade of t/10.                              *)
(***************************************************************************)
RECURSIVE Pow2(_)
Pow2(n) == IF n = 0 THEN 1 ELSE 2 * Pow2(n - 1)

\* b with 2^b <= a/10 < 2^(b+1), for 1 <= a < 320
Binade(a) ==
    IF a < 2 THEN -4 ELSE IF a < 3 THEN -3 ELSE IF a < 5 THEN -2
    ELSE IF a < 10 THEN -1 ELSE IF a < 20 THEN 0 ELSE IF a < 40 THEN 1
    ELSE IF a < 80 THEN 2 ELSE IF a < 160 THEN 3 ELSE 4

\* the binary64 number nearest to t/10 + e * u
FRound(t, e) ==
    IF t = 0 THEN [t |-> 0, e |-> 0]
    ELSE LET sgn == IF t < 0 THEN -1 ELSE 1
             a == sgn * t
             b == Binade(a)
             s == Pow2(b + 4)
             ulp == 5 * s
             r == (a * Pow2((51 - b) % 4)) % 5
             d == r * s + sgn * e
             n == d \div ulp
             rem == d - n * ulp
             m == IF 2 * rem > ulp \/ (2 * rem = ulp /\ (r + n) % 2 = 1)
                  THEN n + 1 ELSE n
         IN  [t |-> t, e |-> sgn * (m * ulp - r * s)]

\* a decimal literal of the source, in tenths (0.5, 0.3), and an int
FLit(tenths) == FRound(tenths, 0)
FInt(n) == [t |-> 10 * n, e |-> 0]

FAdd(x, y) == FRound(x.t + y.t, x.e + y.e)
FSub(x, y) == FRound(x.t - y.t, x.e - y.e)
\* float * int
FMul(x, n) == FRound(x.t * n, x.e * n)
FLeq(x, y) == x.t < y.t \/ (x.t = y.t /\ x.e <= y.e)

(***************************************************************************)
(* Responder Assignment Engine (crisis_alert_manager.py)                   *)
(***************************************************************************)
crisis_matches(crisis_type) ==
    CASE crisis_type = "suicide_ideation"  -> {"suicide", "crisis", "emergency", "ideation"}
      [] crisis_type = "self_harm"         -> {"self-harm", "cutting", "trauma", "crisis"}
      [] crisis_type = "severe_depression" -> {"depression", "mood", "cognitive", "therapy"}
      [] crisis_type = "anxiety_panic"     -> {"anxiety", "panic", "phobia", "stress"}
      [] crisis_type = "substance_abuse"   -> {"substance", "addiction", "recovery", "abuse"}
      [] crisis_type = "eating_disorder"   -> {"eating", "body", "nutrition", "disorder"}
      [] OTHER                             -> {}

\* _calculate_specialization_match: score = 0.0, then += 1.0 for every
\* keyword found (a sum of whole numbers, exact), += 0.5, += 0.3
calculate_specialization_match(therapist, crisis_type, analysis) ==
    LET found == Cardinality({k \in crisis_matches(crisis_type) : InTags(k, therapist.tags)})
        matched == FInt(found)
        crisis_bonus == IF \E w \in {"crisis", "emergency", "trauma"} : InTags(w, therapist.tags)
                        THEN FAdd(matched, FLit(5)) ELSE matched
    IN  IF Len(Get(analysis, "cognitive_distortions", <<>>)) > 0
           /\ InTags("cbt", therapist.tags)
        THEN FAdd(crisis_bonus, FLit(3)) ELSE crisis_bonus

\* (variant: the preference applies at every risk level)
role_priority_any_level(risk_level, role) ==
    IF role = "crisis_specialist" THEN 3
    ELSE IF role \in {"psychologist", "psychiatrist"} THEN 2
    ELSE 1

\* lines 231-237
role_priority(risk_level, role) ==
    IF risk_level \in HighOrCritical
    THEN (IF role = "crisis_specialist" THEN 3
          ELSE IF role \in {"psychologist", "psychiatrist"} THEN 2
          ELSE 1)
    ELSE 1

\* lines 211-216: the count query over crisis_alerts
ActiveCrisisCount(t) ==
    Cardinality({a \in 1..Len(alerts) :
        alerts[a].assigned_therapist_id = t
        /\ alerts[a].status \in ActiveAlertStatus})

\* lines 219-224: the count query over therapist_sessions
ActiveSessionCount(t) ==
    Cardinality({s \in 1..Len(sessions) :
        sessions[s].external_therapist_id = t
        /\ sessions[s].status \in ActiveSessionStatus})

\* lines 189-195: the therapists of the college, active, status active/busy,
\* in the order the query returns them
AvailableTherapists ==
    SelectSeq([i \in 1..Len(therapists) |-> i],
              LAMBDA t : therapists[t].eligible)

\* lines 240-249: the entry appended to therapist_workloads
WorkloadEntry(t, crisis_count, session_count, alert, analysis) ==
    LET spec == calculate_specialization_match(therapists[t], alert.crisis_type, analysis)
        prio == role_priority(alert.risk_level, therapists[t].role)
        total_workload == crisis_count * 2 + session_count
    IN  [therapist |-> t,
         workload |-> total_workload,
         specialization_score |-> spec,
         role_priority |-> prio,
         assignment_score |-> FSub(FInt(total_workload), FMul(spec, prio))]

\* list.sort(key=assignment_score): a stable sort.  The head precedes every
\* element of the sorted tail in the input, so it goes before its equals.
RECURSIVE InsertByScore(_, _)
InsertByScore(e, sorted) ==
    IF sorted = <<>> THEN <<e>>
    ELSE IF FLeq(e.assignment_score, Head(sorted).assignment_score)
         THEN <<e>> \o sorted
         ELSE <<Head(sorted)>> \o InsertByScore(e, Tail(sorted))

RECURSIVE SortByScore(_)
SortByScore(ws) ==
    IF ws = <<>> THEN <<>>
    ELSE InsertByScore(Head(ws), SortByScore(Tail(ws)))

(***************************************************************************)
(* Reply texts.  The four crisis texts of _handle_crisis_escalation all    *)
(* carry the hotline block (Crisis Hotline 988, text HOME to 741741,       *)
(* Emergency 911); no other text of the engine does.                       *)
(***************************************************************************)
CrisisSessionText == "crisis: counselor assigned, emergency session scheduled + hotline block"
CrisisAssignedText == "crisis: counselor assigned + hotline block"
CrisisUnavailableText == "crisis: counselors unavailable + hotline block"
CrisisFallbackText == "crisis: please reach out + hotline block"

HotlineTexts == {CrisisSessionText, CrisisAssignedText, CrisisUnavailableText,
                 CrisisFallbackText}

NoCrisisResult == [kind |-> "none", crisis_alert_id |-> Null,
                   assigned_therapist_id |-> Null, therapist_session_id |-> Null,
                   auto_escalated |-> FALSE]

\* what process_user_message returns (raised: it raised instead)
NoResult == [raised |-> FALSE, response |-> "none", intervention_type |-> "none",
             crisis_detected |-> FALSE, analysis |-> EmptyAnalysis,
             crisis_alert_id |-> Null]

\* the body of the chat endpoint's answer
NoApi == [response |-> "none", intervention |-> "none", crisis_detected |-> FALSE]

\* a row of chat_messages (models.py 185-222).  entry: the endpoint that
\* stored it ("history": a request that ended before the ones at hand);
\* turn: the chat turn that stored it (0: none of Turns); route: the decision
\* of the router the reply was produced under ("none": no router ran)
MessageRow(message_order, role, entry, turn, route) ==
    [message_order |-> message_order, role |-> role, entry |-> entry,
     turn |-> turn, route |-> route]

\* the rows of a session whose earlier turns stored n messages
History(n) ==
    {MessageRow(i, IF i % 2 = 1 THEN "user" ELSE "assistant", "history", 0,
                IF i % 2 = 1 THEN "none" ELSE "respond") : i \in 1..n}

\* UniqueConstraint('session_id', 'message_order') (models.py 221): the
\* INSERT of a second row with the order fails the commit
OrderTaken(message_order) ==
    \E m \in messages : m.message_order = message_order

\* the workflow state of a turn before its first node
InitLoc(analysis) ==
    [message |-> "none",
     analysis |-> analysis,
     analysis_path |-> "none",
     context_depth |-> "none",
     message_count |-> 0,
     repetitive_patterns |-> <<>>,
     route |-> "none",
     alert |-> Null,
     cands |-> <<>>,
     idx |-> 0,
     crisis_count |-> 0,
     workloads |-> <<>>,
     assigned |-> Null,
     crisis_result |-> NoCrisisResult,
     reply |-> "none",
     intervention_type |-> "none",
     next_order |-> 0,
     llm |-> "none",
     raised_in |-> "none",
     result |-> NoResult,
     api |-> NoApi]

(***************************************************************************)
(* The crisis event of a turn: _handle_crisis_escalation calling           *)
(* CrisisAlertManager.create_crisis_alert_with_assignment.                 *)
(***************************************************************************)
\* " ".join(items) raises TypeError on an item that is no string
JoinRaises(items) == \E i \in 1..Len(items) : items[i] = NonString

\* _create_enhanced_crisis_alert: the row is inserted and committed.  The
\* join of line 130 comes before the insert; its TypeError is caught by
\* _handle_crisis_escalation (lines 621-639).
CreateAlert(p) ==
    /\ pc[p] = "handle_crisis"
    /\ LET analysis == loc[p].analysis
           risk_factors == Get(analysis, "risk_factors", <<>>)
           risk_score == Get(analysis, "risk_score", 0)
           main_concerns == Get(analysis, "main_concerns", <<>>)
       IN  IF JoinRaises(risk_factors \o main_concerns)
           THEN /\ loc' = [loc EXCEPT ![p].crisis_result =
                                         [NoCrisisResult EXCEPT !.kind = "error"]]
                /\ pc' = [pc EXCEPT ![p] = "crisis_reply"]
                /\ UNCHANGED alerts
           ELSE
       LET risk_level == calculate_risk_level(risk_score, risk_factors, analysis)
           row == [user_id |-> p,
                   crisis_type |-> determine_crisis_type(risk_factors, main_concerns),
                   risk_level |-> risk_level,
                   status |-> "pending",
                   escalated_to_human |-> risk_level \in HighOrCritical,
                   assigned_therapist_id |-> Null,
                   response_actions |-> {"ai_detected_at", "analysis_version",
                                         "auto_escalation"},
                   acknowledged_at |-> Null,
                   resolved_at |-> Null]
       IN  /\ alerts' = Append(alerts, row)
           /\ loc' = [loc EXCEPT ![p].alert = Len(alerts) + 1]
           /\ pc' = [pc EXCEPT ![p] = "assign_query"]
    /\ UNCHANGED <<sessions, clock, response, therapists, total_messages, summaries, messages>>

\* the insert or its commit raises: the except branch of
\* _handle_crisis_escalation (lines 621-639)
CreateAlertFails(p) ==
    /\ pc[p] = "handle_crisis"
    /\ loc' = [loc EXCEPT ![p].crisis_result = [NoCrisisResult EXCEPT !.kind = "error"]]
    /\ pc' = [pc EXCEPT ![p] = "crisis_reply"]
    /\ UNCHANGED <<alerts, sessions, clock, response, therapists, total_messages, summaries, messages>>

\* lines 197-204, as the UPDATE the commit issues.  response_actions is a
\* plain JSON column (models.py 254) whose dict is changed in place by
\* dict.update; no attribute of the alert is set, and the unit of work
\* writes only the columns of attributes that were set.
UnassignedRow(row) ==
    LET obj == [row EXCEPT !.response_actions =
                               @ \cup {"no_therapists_available", "college_id"}]
        attributes_set == {}
    IN  IF "response_actions" \in attributes_set THEN obj ELSE row

\* _assign_best_available_therapist, lines 181-204: the candidate query
QueryTherapists(p) ==
    /\ pc[p] = "assign_query"
    /\ IF AvailableTherapists = <<>>
       THEN /\ loc' = [loc EXCEPT ![p].cands = <<>>, ![p].assigned = Null]
            /\ alerts' = [alerts EXCEPT ![loc[p].alert] = UnassignedRow(@)]
            /\ pc' = [pc EXCEPT ![p] = "notify"]
       ELSE /\ loc' = [loc EXCEPT ![p].cands = AvailableTherapists,
                                  ![p].idx = 1,
                                  ![p].workloads = <<>>]
            /\ alerts' = alerts
            /\ pc' = [pc EXCEPT ![p] = "count_crisis"]
    /\ UNCHANGED <<sessions, clock, response, therapists, total_messages, summaries, messages>>

\* lines 211-216: the active-crisis count of the candidate at hand
CountCrises(p) ==
    /\ pc[p] = "count_crisis"
    /\ loc' = [loc EXCEPT ![p].crisis_count = ActiveCrisisCount(loc[p].cands[loc[p].idx])]
    /\ pc' = [pc EXCEPT ![p] = "count_sessions"]
    /\ UNCHANGED <<alerts, sessions, clock, response, therapists, total_messages, summaries, messages>>

\* lines 219-249: the active-session count, the scores, the list entry
CountSessions(p) ==
    /\ pc[p] = "count_sessions"
    /\ LET t == loc[p].cands[loc[p].idx]
           entry == WorkloadEntry(t, loc[p].crisis_count, ActiveSessionCount(t),
                                  alerts[loc[p].alert], loc[p].analysis)
       IN  loc' = [loc EXCEPT ![p].workloads = Append(@, entry),
                              ![p].idx = @ + 1,
                              ![p].crisis_count = 0]
    /\ pc' = [pc EXCEPT ![p] = IF loc[p].idx < Len(loc[p].cands)
                               THEN "count_crisis" ELSE "commit_assign"]
    /\ UNCHANGED <<alerts, sessions, clock, response, therapists, total_messages, summaries, messages>>

\* lines 252-256: sort and take the first
BestTherapistData(workloads) == SortByScore(workloads)[1]

\* (variant: every assigned alert is acknowledged)
AssignedRowAlwaysAcknowledged(row, best, now) ==
    [row EXCEPT !.assigned_therapist_id = best.therapist,
                !.status = "acknowledged",
                !.acknowledged_at = now]

\* lines 258-275, as the UPDATE the commit issues.  The alert object was
\* loaded as pending; assigning "pending" again is no change of the
\* attribute and leaves the column out of the UPDATE; so does the in-place
\* update of the response_actions dict (lines 263-269).
AssignedRow(row, best, now) ==
    IF row.risk_level \in HighOrCritical
    THEN [row EXCEPT !.assigned_therapist_id = best.therapist,
                     !.status = "acknowledged",
                     !.acknowledged_at = now]
    ELSE [row EXCEPT !.assigned_therapist_id = best.therapist]

\* (variant: the pick among the sorted entries depends on the worker)
CommitAssignmentByWorker(p) ==
    /\ pc[p] = "commit_assign"
    /\ LET sorted == SortByScore(loc[p].workloads)
           best == sorted[IF p = 1 THEN 1 ELSE Len(sorted)]
           a == loc[p].alert
       IN  /\ alerts' = [alerts EXCEPT ![a] = AssignedRow(alerts[a], best, clock)]
           /\ loc' = [loc EXCEPT ![p].assigned = best.therapist]
    /\ pc' = [pc EXCEPT ![p] = "notify"]
    /\ UNCHANGED <<sessions, clock, response, therapists, total_messages, summaries, messages>>

CommitAssignment(p) ==
    /\ pc[p] = "commit_assign"
    /\ LET best == BestTherapistData(loc[p].workloads)
           a == loc[p].alert
       IN  /\ alerts' = [alerts EXCEPT ![a] = AssignedRow(alerts[a], best, clock)]
           /\ loc' = [loc EXCEPT ![p].assigned = best.therapist]
    /\ pc' = [pc EXCEPT ![p] = "notify"]
    /\ UNCHANGED <<sessions, clock, response, therapists, total_messages, summaries, messages>>

\* _send_crisis_notifications and the result dict of
\* create_crisis_alert_with_assignment (lines 44-55)
SendNotifications(p) ==
    /\ pc[p] = "notify"
    /\ loc' = [loc EXCEPT ![p].crisis_result =
                  [kind |-> "ok",
                   crisis_alert_id |-> loc[p].alert,
                   assigned_therapist_id |-> loc[p].assigned,
                   therapist_session_id |-> Null,
                   auto_escalated |-> alerts[loc[p].alert].risk_level \in HighOrCritical]]
    /\ pc' = [pc EXCEPT ![p] = "crisis_reply"]
    /\ UNCHANGED <<alerts, sessions, clock, response, therapists, total_messages, summaries, messages>>

\* (variant: the except branch answers with the generic fallback)
CrisisTextGenericOnError(crisis_result) ==
    IF crisis_result.kind = "error"
    THEN "I'm here to listen and support you. Thank you for sharing with me. How are you feeling right now?"
    ELSE IF crisis_result.assigned_therapist_id # Null
         THEN (IF crisis_result.therapist_session_id # Null
               THEN CrisisSessionText ELSE CrisisAssignedText)
         ELSE CrisisUnavailableText

\* ai_agent.py 556-639: the crisis text for the outcome
CrisisText(crisis_result) ==
    IF crisis_result.kind = "error" THEN CrisisFallbackText
    ELSE IF crisis_result.assigned_therapist_id # Null
         THEN (IF crisis_result.therapist_session_id # Null
               THEN CrisisSessionText ELSE CrisisAssignedText)
         ELSE CrisisUnavailableText

\* lines 641-644
CrisisReply(p) ==
    /\ pc[p] = "crisis_reply"
    /\ loc' = [loc EXCEPT ![p].reply = CrisisText(loc[p].crisis_result),
                          ![p].intervention_type = "crisis_escalation"]
    /\ pc' = [pc EXCEPT ![p] = "finalize"]
    /\ UNCHANGED <<alerts, sessions, clock, response, therapists, total_messages, summaries, messages>>

\* an exception after the alert is committed (a query or a commit of the
\* assignment or of the notification fails): create_crisis_alert_with_assignment
\* has no handler, the except branch of _handle_crisis_escalation takes it
CrisisManagerRaises(p) ==
    /\ pc[p] \in {"assign_query", "count_crisis", "count_sessions",
                  "commit_assign", "notify"}
    /\ loc' = [loc EXCEPT ![p].crisis_result = [NoCrisisResult EXCEPT !.kind = "error"]]
    /\ pc' = [pc EXCEPT ![p] = "crisis_reply"]
    /\ UNCHANGED <<alerts, sessions, clock, response, therapists, total_messages, summaries, messages>>

CrisisStep(p) ==
    \/ CreateAlert(p)
    \/ CreateAlertFails(p)
    \/ QueryTherapists(p)
    \/ CountCrises(p)
    \/ CountSessions(p)
    \/ CommitAssignment(p)
    \/ SendNotifications(p)
    \/ CrisisReply(p)

(***************************************************************************)
(* Inputs                                                                  *)
(***************************************************************************)
\* rows of the therapists table; eligible = of the user's college, is_active
\* and status active or busy (lines 189-195)
TherapistRows ==
    {[role |-> "counselor", tags |-> {}, eligible |-> TRUE],
     [role |-> "counselor", tags |-> {}, eligible |-> FALSE],
     [role |-> "counselor", tags |-> {"cbt"}, eligible |-> TRUE],
     [role |-> "psychologist", tags |-> {"depression", "cbt"}, eligible |-> TRUE],
     [role |-> "crisis_specialist", tags |-> {"crisis intervention", "cbt"},
      eligible |-> TRUE]}

RECURSIVE SeqsUpTo(_, _)
SeqsUpTo(S, n) ==
    IF n = 0 THEN {<<>>}
    ELSE LET shorter == SeqsUpTo(S, n - 1)
         IN  shorter \cup {Append(q, x) : q \in {r \in shorter : Len(r) = n - 1}, x \in S}

TherapistTables == SeqsUpTo(TherapistRows, MaxTherapists)

\* analyses that the router sends to the crisis node
CrisisAnalyses ==
    {[DefaultAnalysis EXCEPT !.risk_score = rs, !.risk_factors = rf,
                             !.cognitive_distortions = cd]
        : rs \in {5, 8},
          rf \in {<<"hopelessness">>},
          cd \in {<<>>, <<"catastrophizing">>}}

\* sessions that exist before the turns: none, or one of therapist 1 or 2
\* (created through POST /therapist-sessions/ and started by the therapist)
InitialSessionTables ==
    {<<>>,
     <<[crisis_alert_id |-> Null, external_therapist_id |-> 1, status |-> "in_progress"]>>,
     <<[crisis_alert_id |-> Null, external_therapist_id |-> 2, status |-> "in_progress"]>>}

NoResponse == [op |-> "none", targets |-> {}, code |-> 0, at |-> 0]

(***************************************************************************)
(* SpecAssign: two crisis events, nothing else touching the database       *)
(***************************************************************************)
InitAssign ==
    /\ alerts = <<>>
    /\ sessions \in InitialSessionTables
    /\ clock = 1
    /\ response = NoResponse
    /\ therapists \in TherapistTables
    /\ total_messages = 1
    /\ summaries = <<>>
    /\ messages = History(1)
    /\ pc = [p \in Turns |-> "handle_crisis"]
    /\ loc \in [Turns -> {InitLoc(a) : a \in CrisisAnalyses}]

NextAssign == \E p \in Turns : CrisisStep(p)

SpecAssign == InitAssign /\ [][NextAssign]_vars

(***************************************************************************)
(* Claims about concurrent crisis events                                   *)
(***************************************************************************)
\* the turn has committed its assignment
Committed(p) ==
    /\ pc[p] \in {"notify", "crisis_reply", "finalize"}
    /\ loc[p].alert # Null
    /\ loc[p].cands # <<>>

\* C3: when two crisis events are processed concurrently and exactly one
\* responder is eligible, each of the two alerts ends assigned to that
\* responder and the responder's active crisis count is 2.
C3_NoLostUpdate ==
    (/\ Len(AvailableTherapists) = 1
     /\ \A p \in Turns : Committed(p))
    => LET t == AvailableTherapists[1] IN
       /\ Len(alerts) = 2
       /\ loc[1].alert # loc[2].alert
       /\ \A p \in Turns : alerts[loc[p].alert].assigned_therapist_id = t
       /\ ActiveCrisisCount(t) = 2

C3_Witness ==
    /\ Len(AvailableTherapists) = 1
    /\ \A p \in Turns : Committed(p) /\ pc[p] = "finalize"
    /\ ActiveCrisisCount(AvailableTherapists[1]) = 2

\* the responder a crisis event chooses when it runs alone against the
\* initial tables with 'taken' already bound to one more active alert
SerialChoice(p, taken) ==
    LET cands == AvailableTherapists
        entry(i) == WorkloadEntry(cands[i],
                                  IF cands[i] = taken THEN 1 ELSE 0,
                                  ActiveSessionCount(cands[i]),
                                  alerts[loc[p].alert], loc[p].analysis)
    IN  BestTherapistData([i \in 1..Len(cands) |-> entry(i)]).therapist

SerialOutcome(first, second) ==
    LET c1 == SerialChoice(first, Null)
        c2 == SerialChoice(second, c1)
    IN  [p \in Turns |-> IF p = first THEN c1 ELSE c2]

\* C4: the outcome of two concurrent assignments equals the outcome of one
\* of their serial orders (no assignment is scored against a workload that
\* misses an assignment committed before its own commit).
C4_Serializable ==
    (/\ AvailableTherapists # <<>>
     /\ \A p \in Turns : Committed(p))
    => LET outcome == [p \in Turns |-> alerts[loc[p].alert].assigned_therapist_id]
       IN  outcome = SerialOutcome(1, 2) \/ outcome = SerialOutcome(2, 1)

(***************************************************************************)
(* Route handlers.  Each is one request: it reads, writes and commits in   *)
(* one step, and leaves its HTTP response in 'response'.                   *)
(***************************************************************************)
AlertIds == 1..2
SessionIds == 1..MaxSessions
TherapistIds == 1..Len(therapists)

AlertExists(a) == a \in 1..Len(alerts)
SessionExists(s) == s \in 1..Len(sessions)

\* the request is handled at the next instant
Now == clock + 1

Reply(op, targets, code) ==
    [op |-> op, targets |-> targets, code |-> code, at |-> Now]

\* HTTPException raised before any write: nothing is committed
Reject(op, targets, code) ==
    /\ response' = Reply(op, targets, code)
    /\ UNCHANGED <<alerts, sessions>>

NewSession(a, t) ==
    [crisis_alert_id |-> a, external_therapist_id |-> t, status |-> "scheduled"]

\* db.query(TherapistSession).filter(crisis_alert_id == a).first()
ExistingSession(a) == \E s \in 1..Len(sessions) : sessions[s].crisis_alert_id = a

Handled ==
    /\ clock < MaxClock
    /\ clock' = Now
    /\ UNCHANGED <<therapists, total_messages, summaries, messages, pc, loc>>

\* routes/crisis.py 209-237
acknowledge_crisis_alert(a, t) ==
    /\ Handled
    /\ IF ~AlertExists(a) THEN Reject("acknowledge", {a}, 404)
       ELSE IF alerts[a].status # "pending" THEN Reject("acknowledge", {a}, 400)
       ELSE /\ alerts' = [alerts EXCEPT ![a].status = "acknowledged",
                                        ![a].acknowledged_at = Now,
                                        ![a].assigned_therapist_id = t]
            /\ response' = Reply("acknowledge", {a}, 200)
            /\ UNCHANGED sessions

\* routes/crisis.py 239-292
escalate_crisis_alert(a, create_session) ==
    /\ Handled
    /\ IF ~AlertExists(a) THEN Reject("escalate", {a}, 404)
       ELSE IF alerts[a].status \notin {"pending", "acknowledged"}
            THEN Reject("escalate", {a}, 400)
       ELSE /\ alerts' = [alerts EXCEPT ![a].status = "escalated",
                                        ![a].escalated_to_human = TRUE]
            /\ IF create_session
               THEN /\ Len(sessions) < MaxSessions
                    /\ sessions' = Append(sessions, NewSession(a, Null))
               ELSE UNCHANGED sessions
            /\ response' = Reply("escalate", {a}, 200)

\* routes/crisis.py 294-333
resolve_crisis_alert(a) ==
    /\ Handled
    /\ IF ~AlertExists(a) THEN Reject("resolve", {a}, 404)
       ELSE /\ alerts' = [alerts EXCEPT ![a].status = "resolved",
                                        ![a].resolved_at = Now]
            /\ response' = Reply("resolve", {a}, 200)
            /\ UNCHANGED sessions

\* routes/crisis.py 393-426
bulk_acknowledge_alerts(ids, t) ==
    /\ Handled
    /\ LET found == {a \in ids : AlertExists(a) /\ alerts[a].status = "pending"}
       IN  IF found = {} THEN Reject("bulk_acknowledge", ids, 404)
           ELSE /\ alerts' = [a \in 1..Len(alerts) |->
                                 IF a \in found
                                 THEN [alerts[a] EXCEPT !.status = "acknowledged",
                                                        !.acknowledged_at = Now]
                                 ELSE alerts[a]]
                /\ response' = Reply("bulk_acknowledge", ids, 200)
                /\ UNCHANGED sessions

\* routes/therapist_dashboard.py 268-334
create_manual_therapist_session(a, t, link_ok) ==
    /\ Handled
    /\ IF ~AlertExists(a) THEN Reject("create_session", {a}, 404)
       ELSE IF ExistingSession(a) THEN Reject("create_session", {a}, 400)
       ELSE IF ~link_ok THEN Reject("create_session", {a}, 400)
       ELSE /\ Len(sessions) < MaxSessions
            /\ sessions' = Append(sessions, NewSession(a, t))
            /\ alerts' = [alerts EXCEPT ![a].status = "escalated",
                                        ![a].escalated_to_human = TRUE]
            /\ response' = Reply("create_session", {a}, 200)

\* routes/therapist_dashboard.py 336-384
update_therapist_session(s, status) ==
    /\ Handled
    /\ IF ~SessionExists(s) THEN Reject("update_session", {}, 404)
       ELSE IF status \notin SessionStatus THEN Reject("update_session", {}, 400)
       ELSE /\ sessions' = [sessions EXCEPT ![s].status = status]
            /\ response' = Reply("update_session", {}, 200)
            /\ UNCHANGED alerts

\* routes/therapist_dashboard.py 423-509
send_quick_crisis_response(a, t, response_type) ==
    /\ Handled
    /\ IF ~AlertExists(a) THEN Reject("quick_response", {a}, 404)
       ELSE IF alerts[a].assigned_therapist_id # t THEN Reject("quick_response", {a}, 403)
       ELSE IF response_type = "acknowledge"
       THEN IF alerts[a].status = "acknowledged"
            THEN Reject("quick_response", {a}, 400)
            ELSE /\ alerts' = [alerts EXCEPT ![a].status = "acknowledged",
                                             ![a].acknowledged_at = Now]
                 /\ response' = Reply("quick_response", {a}, 200)
                 /\ UNCHANGED sessions
       ELSE IF response_type = "schedule_session"
       THEN /\ Len(sessions) < MaxSessions
            /\ sessions' = Append(sessions, NewSession(a, t))
            /\ alerts' = [alerts EXCEPT ![a].status = "escalated",
                                        ![a].escalated_to_human = TRUE]
            /\ response' = Reply("quick_response", {a}, 200)
       ELSE /\ response' = Reply("quick_response", {a}, 200)
            /\ UNCHANGED <<alerts, sessions>>

\* routes/therapist_session.py 65-161.  a = Null: no crisis_alert_id given.
\* session_data.get(...) is evaluated unless session_type is "online"; the
\* request model has no get, so the handler fails before any write.
create_therapist_session(a, online) ==
    /\ Handled
    /\ LET targets == IF a = Null THEN {} ELSE {a} IN
       IF a # Null /\ ~AlertExists(a) THEN Reject("therapist_session", targets, 404)
       ELSE IF ~online THEN Reject("therapist_session", targets, 500)
       ELSE /\ Len(sessions) < MaxSessions
            /\ sessions' = Append(sessions, NewSession(a, Null))
            /\ IF a # Null
               THEN alerts' = [alerts EXCEPT ![a].status = "escalated",
                                             ![a].escalated_to_human = TRUE]
               ELSE UNCHANGED alerts
            /\ response' = Reply("therapist_session", targets, 200)

\* routes/therapist_session.py 163-239
create_session_from_crisis(a) ==
    /\ Handled
    /\ IF ~AlertExists(a) THEN Reject("from_crisis", {a}, 404)
       ELSE IF ExistingSession(a) THEN Reject("from_crisis", {a}, 400)
       ELSE /\ Len(sessions) < MaxSessions
            /\ sessions' = Append(sessions, NewSession(a, Null))
            /\ alerts' = [alerts EXCEPT ![a].status = "escalated",
                                        ![a].escalated_to_human = TRUE]
            /\ response' = Reply("from_crisis", {a}, 200)

\* routes/therapist_session.py 403-429
start_therapist_session(s, t) ==
    /\ Handled
    /\ IF ~SessionExists(s) THEN Reject("start_session", {}, 404)
       ELSE IF sessions[s].status # "scheduled" THEN Reject("start_session", {}, 400)
       ELSE /\ sessions' = [sessions EXCEPT ![s].status = "in_progress",
                                            ![s].external_therapist_id = t]
            /\ response' = Reply("start_session", {}, 200)
            /\ UNCHANGED alerts

\* routes/therapist_session.py 431-472
complete_therapist_session(s) ==
    /\ Handled
    /\ IF ~SessionExists(s) THEN Reject("complete_session", {}, 404)
       ELSE LET a == sessions[s].crisis_alert_id IN
            /\ sessions' = [sessions EXCEPT ![s].status = "completed"]
            /\ IF a # Null /\ AlertExists(a) /\ alerts[a].status # "resolved"
               THEN alerts' = [alerts EXCEPT ![a].status = "resolved",
                                             ![a].resolved_at = Now]
               ELSE UNCHANGED alerts
            /\ response' = Reply("complete_session", IF a = Null THEN {} ELSE {a}, 200)

\* routes/therapist_session.py 474-502
cancel_therapist_session(s) ==
    /\ Handled
    /\ IF ~SessionExists(s) THEN Reject("cancel_session", {}, 404)
       ELSE IF sessions[s].status \in {"completed", "cancelled"}
            THEN Reject("cancel_session", {}, 400)
       ELSE /\ sessions' = [sessions EXCEPT ![s].status = "cancelled"]
            /\ response' = Reply("cancel_session", {}, 200)
            /\ UNCHANGED alerts

Acknowledge == \E a \in AlertIds, t \in TherapistIds : acknowledge_crisis_alert(a, t)
Escalate == \E a \in AlertIds, cs \in BOOLEAN : escalate_crisis_alert(a, cs)
Resolve == \E a \in AlertIds : resolve_crisis_alert(a)
BulkAcknowledge ==
    \E ids \in SUBSET AlertIds \ {{}}, t \in TherapistIds : bulk_acknowledge_alerts(ids, t)
CreateManualSession ==
    \E a \in AlertIds, t \in TherapistIds, ok \in BOOLEAN :
        create_manual_therapist_session(a, t, ok)
UpdateSession ==
    \E s \in SessionIds, st \in {"completed", "cancelled", "no_show", "bogus"} :
        update_therapist_session(s, st)
QuickResponse ==
    \E a \in AlertIds, t \in TherapistIds,
       rt \in {"acknowledge", "schedule_session", "other"} :
        send_quick_crisis_response(a, t, rt)
CreateTherapistSession ==
    \E a \in AlertIds \cup {Null}, online \in BOOLEAN : create_therapist_session(a, online)
CreateSessionFromCrisis == \E a \in AlertIds : create_session_from_crisis(a)
StartSession == \E s \in SessionIds, t \in TherapistIds : start_therapist_session(s, t)
CompleteSession == \E s \in SessionIds : complete_therapist_session(s)
CancelSession == \E s \in SessionIds : cancel_therapist_session(s)

(***************************************************************************)
(* Spec: the alert lifecycle.  One turn that was routed to crisis creates  *)
(* the alert; the staff's requests arrive in any order around its steps.   *)
(* Alert id 2 is the id of no alert.                                       *)
(***************************************************************************)
LifecycleTherapists ==
    {tt \in TherapistTables :
        /\ Len(tt) = MaxTherapists
        /\ \A i \in 1..Len(tt) : tt[i].eligible /\ tt[i].tags = {}}

LifecycleAnalyses == {a \in CrisisAnalyses : a.cognitive_distortions = <<>>}

Init ==
    /\ alerts = <<>>
    /\ sessions = <<>>
    /\ clock = 1
    /\ response = NoResponse
    /\ therapists \in LifecycleTherapists
    /\ total_messages = 1
    /\ summaries = <<>>
    /\ messages = History(1)
    /\ pc = [p \in Turns |-> IF p = 1 THEN "handle_crisis" ELSE "idle"]
    /\ \E a \in LifecycleAnalyses :
          loc = [p \in Turns |-> IF p = 1 THEN InitLoc(a) ELSE InitLoc(EmptyAnalysis)]

Next ==
    \/ \E p \in Turns : CrisisStep(p)
    \/ Acknowledge
    \/ Escalate
    \/ Resolve
    \/ BulkAcknowledge
    \/ CreateManualSession
    \/ UpdateSession
    \/ QuickResponse
    \/ CreateTherapistSession
    \/ CreateSessionFromCrisis
    \/ StartSession
    \/ CompleteSession
    \/ CancelSession

Spec == Init /\ [][Next]_vars

(***************************************************************************)
(* The turn pipeline (ai_agent.py).  Text produced by the text-generation  *)
(* service is a token with its length after strip(); the engine's own      *)
(* texts are the strings of the source.                                    *)
(***************************************************************************)
LLMContents == {"You are carrying a lot before the exam; what would good enough look like?",
                "It's completely normal. Ok.",
                "ok",
                "   ",
                ""}

\* response.strip() and the removal of a repetitive beginning (lines 657-666)
Cleaned(content) ==
    CASE content = "It's completely normal. Ok." -> "Ok."
      [] content = "   " -> ""
      [] OTHER -> content

StrLen(text) ==
    CASE text = "" -> 0
      [] text = "ok" -> 2
      [] text = "Ok." -> 3
      [] text = "   " -> 3
      [] OTHER -> 60

\* _post_process_response
post_process_response(content) ==
    IF StrLen(Cleaned(content)) < 10 THEN "Tell me more about that."
    ELSE Cleaned(content)

\* lines 471-478
ContextualFallback(emotional_state) ==
    CASE emotional_state = "anxious" -> "That anxiety about your exams is really weighing on you."
      [] emotional_state = "stressed" -> "You're carrying a lot of pressure right now."
      [] emotional_state = "overwhelmed" -> "Everything feels like too much at once."
      [] emotional_state = "frustrated" -> "This situation is really getting to you."
      [] emotional_state = "sad" -> "You're going through a tough time."
      [] OTHER -> "Tell me more about what's going through your mind."

InSeq(x, q) == \E i \in 1..Len(q) : q[i] = x

\* lines 529-536
CbtFallback(cognitive_distortions) ==
    IF InSeq("all-or-nothing", cognitive_distortions)
    THEN "I hear you saying 'never' - but what about the times you did okay? Perfect isn't the only option here."
    ELSE IF InSeq("catastrophizing", cognitive_distortions)
    THEN "Your mind is jumping to worst-case scenarios. What's actually most likely to happen?"
    ELSE "Those thoughts feel very real, but they might not be telling you the whole truth about yourself."

\* line 755
WorkflowFallbackText == "I'm here to listen and support you. Thank you for sharing with me. How are you feeling right now?"

\* main.py 209
ApiFallbackText == "I'm here to help. Could you tell me a bit more about what's on your mind?"

\* what the service may answer to the analysis prompt, when it answers JSON

LLMAnalyses ==
    {[kind |-> "object",
      keys |-> {k \in AnalysisKeys :
                  \/ k \in {"emotional_state", "main_concerns", "conversation_needs"}
                  \/ (k = "risk_score" /\ rs # "absent")
                  \/ (k = "risk_factors" /\ rf # "absent")
                  \/ (k = "cognitive_distortions" /\ cd # "absent")
                  \/ (k = "immediate_action_needed" /\ ia # "absent")
                  \/ (k = "urgency_level" /\ ul # "absent")},
      emotional_state |-> es,
      main_concerns |-> <<"exams">>,
      conversation_needs |-> "advice",
      risk_score |-> CASE rs = "absent" -> 0 [] rs = "3" -> 3 [] rs = "6" -> 6
                       [] rs = "7" -> 7 [] rs = "10" -> 10 [] OTHER -> BadNum,
      risk_factors |-> CASE rf = "kill myself" -> <<"kill myself">>
                         [] rf = "cutting, kill myself" -> <<"cutting", "kill myself">>
                         [] rf = "drinking" -> <<"drinking">>
                         [] OTHER -> <<>>,
      cognitive_distortions |-> CASE cd = "all-or-nothing" -> <<"all-or-nothing">>
                                  [] cd = "mind-reading" -> <<"mind-reading">>
                                  [] OTHER -> <<>>,
      immediate_action_needed |-> (ia = "true"),
      urgency_level |-> CASE ul = "8" -> 8 [] ul = "bad" -> BadNum [] OTHER -> 3]
     : rs \in {"absent", "3", "6", "7", "10", "bad"},
       rf \in {"absent", "empty", "kill myself", "cutting, kill myself", "drinking"},
       cd \in {"absent", "empty", "all-or-nothing", "mind-reading"},
       ia \in {"absent", "true", "false"},
       ul \in {"absent", "8", "bad"},
       es \in {"stressed", "neutral"}}

\* a JSON document that json.loads accepts and that is no object
NonObjectAnalysis == [EmptyAnalysis EXCEPT !.kind = "non_object"]

\* lines 750-765: the fallback result of a failed workflow
WorkflowFailed(l, node) ==
    [l EXCEPT !.raised_in = node,
              !.reply = WorkflowFallbackText,
              !.analysis = WorkflowFallbackAnalysis,
              !.crisis_result = NoCrisisResult,
              !.repetitive_patterns = <<>>,
              !.intervention_type = "none"]

\* the text of the turn
UserMessages == {"I want to kill myself", "My exams are stressing me out"}

\* process_user_message, lines 712-744: ValueError when the session does not
\* exist; else the user message is stored and committed under the order that
\* follows the session's counter.  The lines from the read of the session to
\* the commit hold no await.
BeginTurnOf(p, texts) ==
    /\ pc[p] = "start"
    /\ total_messages < MaxMessages
    /\ LET next_order == total_messages + 1 IN
       \E message \in texts :
          IF total_messages = NoSession \/ OrderTaken(next_order)
          THEN /\ loc' = [loc EXCEPT ![p].message = message,
                                     ![p].result = [NoResult EXCEPT !.raised = TRUE]]
               /\ pc' = [pc EXCEPT ![p] = "chat_api"]
               /\ UNCHANGED <<total_messages, messages>>
          ELSE /\ loc' = [loc EXCEPT ![p].next_order = next_order,
                                     ![p].message = message]
               /\ total_messages' = next_order
               /\ messages' = messages \cup {MessageRow(next_order, "user", "chat", p, "none")}
               /\ pc' = [pc EXCEPT ![p] = "comprehensive_analysis"]
    /\ UNCHANGED <<alerts, sessions, clock, response, therapists, summaries>>

BeginTurn(p) == BeginTurnOf(p, UserMessages)

\* _comprehensive_analysis.  The call to the service (line 295) stands
\* before the try block: an error of the service leaves the node.
comprehensive_analysis(l, outcome, data) ==
    IF outcome = "error" THEN WorkflowFailed([l EXCEPT !.llm = outcome], "comprehensive_analysis")
    ELSE IF outcome = "malformed"
    THEN [l EXCEPT !.llm = outcome, !.analysis = DefaultAnalysis, !.analysis_path = "except"]
    ELSE [l EXCEPT !.llm = outcome, !.analysis = data, !.analysis_path = "try"]

\* the node, for the set of JSON objects the service may answer
ComprehensiveAnalysisOf(p, analyses) ==
    /\ pc[p] = "comprehensive_analysis"
    /\ \E outcome \in {"error", "malformed", "non_object", "object"} :
       \E data \in (IF outcome = "object" THEN analyses ELSE {NonObjectAnalysis}) :
          /\ loc' = [loc EXCEPT ![p] = comprehensive_analysis(loc[p], outcome, data)]
          /\ pc' = [pc EXCEPT ![p] = IF outcome = "error" THEN "finalize"
                                     ELSE "check_context_depth"]
    /\ UNCHANGED <<alerts, sessions, clock, response, therapists, total_messages, summaries, messages>>

\* (variant: the boundaries are inclusive)
ContextDepthInclusive(message_count) ==
    IF message_count <= 3 THEN "shallow"
    ELSE IF message_count <= 8 THEN "moderate"
    ELSE "deep"

ComprehensiveAnalysis(p) == ComprehensiveAnalysisOf(p, LLMAnalyses)

\* _check_context_depth, lines 330-335
ContextDepth(message_count) ==
    IF message_count < 3 THEN "shallow"
    ELSE IF message_count < 8 THEN "moderate"
    ELSE "deep"

\* line 327: session.total_messages if session else 0
MessageCount(session_total) ==
    IF session_total = NoSession THEN 0 ELSE session_total

CheckContextDepth(p) ==
    /\ pc[p] = "check_context_depth"
    /\ loc' = [loc EXCEPT ![p].context_depth = ContextDepth(MessageCount(total_messages)),
                          ![p].message_count = MessageCount(total_messages)]
    /\ pc' = [pc EXCEPT ![p] = "detect_patterns"]
    /\ UNCHANGED <<alerts, sessions, clock, response, therapists, total_messages, summaries, messages>>

\* _detect_repetitive_patterns.  A summary is a text, kept as the keywords
\* of the vocabulary that occur in its lower-cased form together with its
\* first and its last words.
PatternKeywords == <<"exam anxiety", "perfectionism", "study stress",
                     "fear of failure", "overwhelmed">>

Summary(themes, starts, ends) == [themes |-> themes, starts |-> starts, ends |-> ends]

\* the keywords that "one text" + " " + "next text" holds across the blank
AcrossJoin(ends, starts) ==
    {k \in {"exam anxiety", "study stress", "fear of failure"} :
        \/ (k = "exam anxiety" /\ ends = "exam" /\ starts = "anxiety")
        \/ (k = "study stress" /\ ends = "study" /\ starts = "stress")
        \/ (k = "fear of failure" /\ ends = "fear of" /\ starts = "failure")}

\* the keywords that occur in " ".join(summaries).lower() (lines 354-355, 360)
KeywordsInCombined(texts) ==
    UNION {texts[i].themes : i \in 1..Len(texts)}
    \cup UNION {AcrossJoin(texts[i].ends, texts[i + 1].starts) : i \in 1..(Len(texts) - 1)}

FirstN(q, n) == SubSeq(q, 1, IF Len(q) < n THEN Len(q) ELSE n)

\* the query of lines 347-350: limit(3) without ORDER BY returns any three
\* of the rows, in any order
LimitAll(rows, n) ==
    LET k == IF Len(rows) < n THEN Len(rows) ELSE n
    IN  {[i \in 1..k |-> rows[f[i]]] :
            f \in {g \in [1..k -> 1..Len(rows)] :
                      \A i, j \in 1..k : i # j => g[i] # g[j]}}

\* (variant: the list is not cut to two)
detect_repetitive_patterns_uncut(recent_sessions) ==
    IF Len(recent_sessions) >= 2
    THEN LET combined == KeywordsInCombined(recent_sessions)
         IN  SelectSeq(PatternKeywords, LAMBDA k : k \in combined)
    ELSE <<>>

\* lines 352-363
detect_repetitive_patterns(recent_sessions) ==
    IF Len(recent_sessions) >= 2
    THEN LET combined == KeywordsInCombined(recent_sessions)
         IN  FirstN(SelectSeq(PatternKeywords, LAMBDA k : k \in combined), 2)
    ELSE <<>>

DetectPatterns(p) ==
    /\ pc[p] = "detect_patterns"
    /\ \E recent_sessions \in LimitAll(summaries, 3) :
          loc' = [loc EXCEPT ![p].repetitive_patterns =
                     detect_repetitive_patterns(recent_sessions)]
    /\ pc' = [pc EXCEPT ![p] = "routing"]
    /\ UNCHANGED <<alerts, sessions, clock, response, therapists, total_messages, summaries, messages>>

\* (variant: risk_score > 7)
intelligent_routing_gt7(state) ==
    LET analysis == state.analysis IN
    IF analysis.kind # "object" THEN "raise"
    ELSE IF Get(analysis, "risk_score", 0) = BadNum THEN "raise"
    ELSE IF \/ Get(analysis, "risk_score", 0) > 7
            \/ Get(analysis, "immediate_action_needed", FALSE)
            \/ Len(Get(analysis, "risk_factors", <<>>)) > 0
         THEN "crisis"
    ELSE IF Len(Get(analysis, "cognitive_distortions", <<>>)) > 0 THEN "cbt"
    ELSE "respond"

\* (variant: the cbt test comes first)
intelligent_routing_cbt_first(state) ==
    LET analysis == state.analysis IN
    IF analysis.kind # "object" THEN "raise"
    ELSE IF Get(analysis, "risk_score", 0) = BadNum THEN "raise"
    ELSE IF Len(Get(analysis, "cognitive_distortions", <<>>)) > 0 THEN "cbt"
    ELSE IF \/ Get(analysis, "risk_score", 0) >= 7
            \/ Get(analysis, "immediate_action_needed", FALSE)
            \/ Len(Get(analysis, "risk_factors", <<>>)) > 0
         THEN "crisis"
    ELSE "respond"

\* (variant: 'risk_factors is not None' instead of its truth value)
intelligent_routing_factors_present(state) ==
    LET analysis == state.analysis IN
    IF analysis.kind # "object" THEN "raise"
    ELSE IF Get(analysis, "risk_score", 0) = BadNum THEN "raise"
    ELSE IF \/ Get(analysis, "risk_score", 0) >= 7
            \/ Get(analysis, "immediate_action_needed", FALSE)
            \/ "risk_factors" \in analysis.keys
         THEN "crisis"
    ELSE IF Len(Get(analysis, "cognitive_distortions", <<>>)) > 0 THEN "cbt"
    ELSE "respond"

\* _intelligent_routing over the workflow state.  "raise": analysis.get on
\* a value that is no dict, or the comparison of a non-number with 7.
intelligent_routing(state) ==
    LET analysis == state.analysis IN
    IF analysis.kind # "object" THEN "raise"
    ELSE LET risk_score == Get(analysis, "risk_score", 0)
             risk_factors == Get(analysis, "risk_factors", <<>>)
             cognitive_distortions == Get(analysis, "cognitive_distortions", <<>>)
             immediate_action == Get(analysis, "immediate_action_needed", FALSE)
         IN  IF risk_score = BadNum THEN "raise"
             ELSE IF risk_score >= 7 \/ immediate_action \/ Len(risk_factors) > 0
                  THEN "crisis"
             ELSE IF Len(cognitive_distortions) > 0 THEN "cbt"
             ELSE "respond"

\* the conditional edge after detect_patterns (lines 245-253)
Routing(p) ==
    /\ pc[p] = "routing"
    /\ LET route == intelligent_routing(loc[p]) IN
       IF route = "raise"
       THEN /\ loc' = [loc EXCEPT ![p] = WorkflowFailed([loc[p] EXCEPT !.route = "raise"], "routing")]
            /\ pc' = [pc EXCEPT ![p] = "finalize"]
       ELSE /\ loc' = [loc EXCEPT ![p].route = route]
            /\ pc' = [pc EXCEPT ![p] = CASE route = "crisis" -> "handle_crisis"
                                         [] route = "cbt" -> "provide_cbt_intervention"
                                         [] OTHER -> "generate_contextual_response"]
    /\ UNCHANGED <<alerts, sessions, clock, response, therapists, total_messages, summaries, messages>>

\* _generate_contextual_response, lines 465-482
contextual_response(analysis, outcome, content) ==
    IF outcome = "error"
    THEN ContextualFallback(Get(analysis, "emotional_state", "neutral"))
    ELSE post_process_response(content)

GenerateContextualResponseOf(p, contents) ==
    /\ pc[p] = "generate_contextual_response"
    /\ \E outcome \in {"error", "text"} :
       \E content \in (IF outcome = "text" THEN contents ELSE {""}) :
          loc' = [loc EXCEPT ![p].reply = contextual_response(loc[p].analysis, outcome, content),
                             ![p].intervention_type = "contextual_response"]
    /\ pc' = [pc EXCEPT ![p] = "finalize"]
    /\ UNCHANGED <<alerts, sessions, clock, response, therapists, total_messages, summaries, messages>>

GenerateContextualResponse(p) == GenerateContextualResponseOf(p, LLMContents)

\* _provide_cbt_intervention, lines 526-540
cbt_response(analysis, outcome, content) ==
    IF outcome = "error"
    THEN CbtFallback(Get(analysis, "cognitive_distortions", <<>>))
    ELSE content

ProvideCbtInterventionOf(p, contents) ==
    /\ pc[p] = "provide_cbt_intervention"
    /\ \E outcome \in {"error", "text"} :
       \E content \in (IF outcome = "text" THEN contents ELSE {""}) :
          loc' = [loc EXCEPT ![p].reply = cbt_response(loc[p].analysis, outcome, content),
                             ![p].intervention_type = "cbt_intervention"]
    /\ pc' = [pc EXCEPT ![p] = "finalize"]
    /\ UNCHANGED <<alerts, sessions, clock, response, therapists, total_messages, summaries, messages>>

ProvideCbtIntervention(p) == ProvideCbtInterventionOf(p, LLMContents)

\* process_user_message, lines 767-828.  Line 787 divides urgency_level by
\* 10.0 outside any try block.
turn_result(l) ==
    LET analysis == l.analysis IN
    IF Get(analysis, "urgency_level", 5) = BadNum
    THEN [NoResult EXCEPT !.raised = TRUE]
    ELSE [raised |-> FALSE,
          response |-> l.reply,
          intervention_type |-> IF l.intervention_type = "none"
                                THEN "contextual_response" ELSE l.intervention_type,
          crisis_detected |-> (Get(analysis, "risk_score", 0) >= 7),
          analysis |-> analysis,
          crisis_alert_id |-> l.crisis_result.crisis_alert_id]

\* lines 776-811: the reply is stored under the order after the turn's own
\* user message and the counter is set to it; the commit of line 811 fails
\* as a whole when the order is taken or the session's row is gone.
Finalize(p) ==
    /\ pc[p] = "finalize"
    /\ LET next_order == loc[p].next_order + 1
           computed == turn_result(loc[p])
           r == IF ~computed.raised /\
                   (total_messages = NoSession \/ OrderTaken(next_order))
                THEN [NoResult EXCEPT !.raised = TRUE] ELSE computed
       IN  /\ loc' = [loc EXCEPT ![p].result = r]
           /\ IF r.raised
              THEN UNCHANGED <<total_messages, messages>>
              ELSE /\ total_messages' = next_order
                   /\ messages' = messages \cup
                          {MessageRow(next_order, "assistant", "chat", p, loc[p].route)}
    /\ pc' = [pc EXCEPT ![p] = "chat_api"]
    /\ UNCHANGED <<alerts, sessions, clock, response, therapists, summaries>>

\* main.py chat_api, lines 165-214
chat_response(result) ==
    IF result.raised
    THEN [response |-> ApiFallbackText, intervention |-> "fallback", crisis_detected |-> FALSE]
    ELSE [response |-> result.response, intervention |-> result.intervention_type,
          crisis_detected |-> result.crisis_detected]

ChatApi(p) ==
    /\ pc[p] = "chat_api"
    /\ loc' = [loc EXCEPT ![p].api = chat_response(loc[p].result)]
    /\ pc' = [pc EXCEPT ![p] = "done"]
    /\ UNCHANGED <<alerts, sessions, clock, response, therapists, total_messages, summaries, messages>>

TurnStep(p) ==
    \/ BeginTurn(p)
    \/ ComprehensiveAnalysis(p)
    \/ CheckContextDepth(p)
    \/ DetectPatterns(p)
    \/ Routing(p)
    \/ GenerateContextualResponse(p)
    \/ ProvideCbtIntervention(p)
    \/ CrisisStep(p)
    \/ Finalize(p)
    \/ ChatApi(p)

\* OpenRouterClient.ainvoke, lines 63-75: requests.post is called without a
\* timeout; when the service accepts the connection and never answers, the
\* call does not return and no step of the turn follows
ServiceNeverAnswers(p) ==
    /\ pc[p] \in {"comprehensive_analysis", "generate_contextual_response",
                  "provide_cbt_intervention"}
    /\ loc' = [loc EXCEPT ![p].llm = "no_answer"]
    /\ pc' = [pc EXCEPT ![p] = "awaiting_service"]
    /\ UNCHANGED <<alerts, sessions, clock, response, therapists, total_messages, summaries, messages>>

(***************************************************************************)
(* The second entry point and the deletion of the session                  *)
(***************************************************************************)
SendReplyRows == {m \in messages : m.entry = "send" /\ m.role = "assistant"}

\* routes/messages.py send_message, text content, lines 38-250.  outcome is
\* that of the direct call to the service: "ok" (status 200), "status_error"
\* (another status, or no API key), "exception" (requests.post raises).
\* No await stands between the read of the session and the commit.
send_message(outcome) ==
    /\ Cardinality(SendReplyRows) < MaxSends
    /\ total_messages # NoSession
    /\ LET next_order == total_messages + 1 IN
       IF outcome = "exception"
       THEN /\ ~OrderTaken(next_order)
            /\ messages' = messages \cup
                   {MessageRow(next_order, "assistant", "send", 0, "none")}
            /\ total_messages' = next_order
       ELSE /\ ~OrderTaken(next_order) /\ ~OrderTaken(next_order + 1)
            /\ messages' = messages \cup
                   {MessageRow(next_order, "user", "send", 0, "none"),
                    MessageRow(next_order + 1, "assistant", "send", 0, "none")}
            /\ total_messages' = next_order + 1
    /\ UNCHANGED <<alerts, sessions, clock, response, therapists, summaries, pc, loc>>

SendMessage == \E outcome \in {"ok", "status_error", "exception"} : send_message(outcome)

\* routes/sessions.py delete_chat_session, lines 169-221: the session and,
\* by cascade, its messages are deleted (404 when it does not exist)
delete_chat_session ==
    /\ total_messages # NoSession
    /\ total_messages' = NoSession
    /\ messages' = {}
    /\ UNCHANGED <<alerts, sessions, clock, response, therapists, summaries, pc, loc>>

(***************************************************************************)
(* SpecTurn: one turn through POST /chat/{user_id}/{session_id}            *)
(***************************************************************************)
TurnTherapists ==
    {<<>>,
     <<[role |-> "counselor", tags |-> {}, eligible |-> TRUE]>>}

TurnSummaries ==
    {<<>>,
     <<Summary({"exam anxiety", "overwhelmed"}, "", ""), Summary({"perfectionism"}, "", "")>>}

InitTurn ==
    /\ alerts = <<>>
    /\ sessions = <<>>
    /\ clock = 1
    /\ response = NoResponse
    /\ therapists \in TurnTherapists
    /\ total_messages \in 0..(MaxMessages - 2)
    /\ summaries \in TurnSummaries
    /\ messages = History(total_messages)
    /\ pc = [p \in Turns |-> IF p = 1 THEN "start" ELSE "idle"]
    /\ loc = [p \in Turns |-> InitLoc(EmptyAnalysis)]

NextTurn == \E p \in Turns : TurnStep(p)

SpecTurn == InitTurn /\ [][NextTurn]_vars

(***************************************************************************)
(* SpecSession: two requests to POST /chat/{user_id}/{session_id} of the    *)
(* same session, served as coroutines that interleave at the awaits of the *)
(* workflow.                                                               *)
(***************************************************************************)
SessionAnalyses ==
    {[DefaultAnalysis EXCEPT !.risk_score = 3],
     [DefaultAnalysis EXCEPT !.cognitive_distortions = <<"all-or-nothing">>],
     [DefaultAnalysis EXCEPT !.risk_score = 3, !.risk_factors = <<"hopelessness">>],
     [DefaultAnalysis EXCEPT !.risk_score = 8, !.risk_factors = <<NonString>>]}

SessionContents == {"You are carrying a lot before the exam; what would good enough look like?"}

SessionTexts == {"My exams are stressing me out"}

SessionStep(p) ==
    \/ BeginTurnOf(p, SessionTexts)
    \/ ComprehensiveAnalysisOf(p, SessionAnalyses)
    \/ CheckContextDepth(p)
    \/ DetectPatterns(p)
    \/ Routing(p)
    \/ GenerateContextualResponseOf(p, SessionContents)
    \/ ProvideCbtInterventionOf(p, SessionContents)
    \/ CrisisStep(p)
    \/ CrisisManagerRaises(p)
    \/ ServiceNeverAnswers(p)
    \/ Finalize(p)
    \/ ChatApi(p)

InitSession ==
    /\ alerts = <<>>
    /\ sessions = <<>>
    /\ clock = 1
    /\ response = NoResponse
    /\ therapists = <<[role |-> "counselor", tags |-> {}, eligible |-> TRUE]>>
    /\ total_messages \in {0, 2}
    /\ summaries = <<>>
    /\ messages = History(total_messages)
    /\ pc = [p \in Turns |-> "start"]
    /\ loc = [p \in Turns |-> InitLoc(EmptyAnalysis)]

NextSession == \E p \in Turns : SessionStep(p)

SpecSession == InitSession /\ [][NextSession]_vars

\* the summaries of the user's sessions: none; one; two with three themes
\* between them; four, of which three are read; two whose join makes a theme
EntrySummaries ==
    {<<>>,
     <<Summary({"perfectionism"}, "", "")>>,
     <<Summary({"exam anxiety", "overwhelmed"}, "", ""), Summary({"perfectionism"}, "", "")>>,
     <<Summary({}, "", ""), Summary({}, "", ""),
       Summary({"overwhelmed"}, "", ""), Summary({"fear of failure"}, "", "")>>,
     <<Summary({}, "", "exam"), Summary({}, "anxiety", "")>>}

(***************************************************************************)
(* SpecEntry: the two entry points of a session.  One request to POST      *)
(* /chat/{user_id}/{session_id}, requests to POST /messages/send and the    *)
(* deletion of the session, in any order.                                  *)
(***************************************************************************)
InitEntry ==
    /\ alerts = <<>>
    /\ sessions = <<>>
    /\ clock = 1
    /\ response = NoResponse
    /\ therapists \in TurnTherapists
    /\ total_messages \in 0..(MaxMessages - 2)
    /\ summaries \in EntrySummaries
    /\ messages = History(total_messages)
    /\ pc = [p \in Turns |-> IF p = 1 THEN "start" ELSE "idle"]
    /\ loc = [p \in Turns |-> InitLoc(EmptyAnalysis)]

ChatRequest == \E p \in Turns : SessionStep(p)

NextEntry ==
    \/ ChatRequest
    \/ SendMessage
    \/ delete_chat_session

SpecEntry == InitEntry /\ [][NextEntry]_vars

\* SpecLive: the chat request is a task of the event loop; a step of it that
\* is possible is taken
SpecLive == SpecEntry /\ WF_vars(ChatRequest)

(***************************************************************************)
(* Claims about the alert lifecycle                                        *)
(***************************************************************************)
\* the operations that acknowledge, escalate, resolve or schedule a session
\* against an alert
TransitionOps == {"acknowledge", "bulk_acknowledge", "escalate", "resolve",
                  "quick_response", "create_session", "therapist_session",
                  "from_crisis", "complete_session"}

\* C1: once an alert's status is resolved, every later operation against it
\* is rejected with an explicit error and leaves the alert unchanged.
C1_ResolvedIsTerminal ==
    [][\A a \in 1..Len(alerts) :
          alerts[a].status = "resolved"
          => /\ alerts'[a] = alerts[a]
             /\ (response'.at # response.at
                 /\ a \in response'.targets
                 /\ response'.op \in TransitionOps) => response'.code >= 400]_vars

\* the changes of status the lifecycle allows
ForwardTransitions ==
    {<<"pending", "acknowledged">>, <<"pending", "escalated">>,
     <<"acknowledged", "escalated">>, <<"pending", "resolved">>,
     <<"acknowledged", "resolved">>, <<"escalated", "resolved">>}

\* C2: every change of an alert's status is one of pending->acknowledged,
\* pending->escalated, acknowledged->escalated or (any non-terminal status)
\* ->resolved; no status regresses.
C2_MonotonicStatus ==
    [][\A a \in 1..Len(alerts) :
          alerts'[a].status # alerts[a].status
          => <<alerts[a].status, alerts'[a].status>> \in ForwardTransitions]_vars

(***************************************************************************)
(* Claims about the turn pipeline                                          *)
(***************************************************************************)
\* an assessment: a JSON object whose risk_score, when present, is a number
IsAssessment(a) == a.kind = "object" /\ Get(a, "risk_score", 0) # BadNum

\* the router runs in this step for turn p
Routes(p) == pc[p] = "routing" /\ pc'[p] # "routing"

\* C5: for every assessment with risk_score >= 7 the Decision Router
\* returns crisis, whatever the cognitive distortions, the risk factors and
\* immediate_action_needed are.
C5_HighRiskIsCrisis ==
    [][\A p \in Turns :
          (Routes(p) /\ IsAssessment(loc[p].analysis)
           /\ Get(loc[p].analysis, "risk_score", 0) >= 7)
          => loc'[p].route = "crisis"]_vars

C5_Witness ==
    /\ loc[1].route = "crisis"
    /\ Get(loc[1].analysis, "risk_score", 0) = 7
    /\ Len(Get(loc[1].analysis, "cognitive_distortions", <<>>)) > 0
    /\ Len(Get(loc[1].analysis, "risk_factors", <<>>)) = 0
    /\ ~Get(loc[1].analysis, "immediate_action_needed", FALSE)

\* the route section 4.4 of the design prescribes
ExpectedRoute(a) ==
    IF \/ Get(a, "risk_score", 0) >= 7
       \/ Get(a, "immediate_action_needed", FALSE)
       \/ Get(a, "risk_factors", <<>>) # <<>>
    THEN "crisis"
    ELSE IF Get(a, "cognitive_distortions", <<>>) # <<>> THEN "cbt"
    ELSE "respond"

\* C6: the Decision Router returns, for every assessment, crisis iff
\* risk_score >= 7 or immediate_action_needed or risk_factors is non-empty,
\* otherwise cbt iff cognitive_distortions is non-empty, otherwise respond;
\* context depth and detected patterns never change the outcome.
C6_RouterIsTotal ==
    [][\A p \in Turns :
          (Routes(p) /\ IsAssessment(loc[p].analysis))
          => loc'[p].route = ExpectedRoute(loc[p].analysis)]_vars

C6_Witness ==
    /\ loc[1].route = "cbt"
    /\ loc[1].context_depth = "deep"
    /\ loc[1].repetitive_patterns # <<>>
    /\ Get(loc[1].analysis, "risk_score", 0) = 6

LowRiskNoSignals(a) ==
    /\ IsAssessment(a)
    /\ Get(a, "risk_score", 0) < 4
    /\ Get(a, "risk_factors", <<>>) = <<>>
    /\ Get(a, "cognitive_distortions", <<>>) = <<>>

\* C7 as stated: risk_score < 4, empty risk_factors and empty
\* cognitive_distortions give respond.
C7_LowRiskResponds ==
    [][\A p \in Turns :
          (Routes(p) /\ LowRiskNoSignals(loc[p].analysis))
          => loc'[p].route = "respond"]_vars

\* C7 amended: risk_score < 4, empty risk_factors, empty
\* cognitive_distortions and immediate_action_needed false give respond.
C7_LowRiskNoActionResponds ==
    [][\A p \in Turns :
          (/\ Routes(p)
           /\ LowRiskNoSignals(loc[p].analysis)
           /\ ~Get(loc[p].analysis, "immediate_action_needed", FALSE))
          => loc'[p].route = "respond"]_vars

C7_Witness ==
    /\ loc[1].route = "respond"
    /\ loc[1].analysis_path = "try"
    /\ Get(loc[1].analysis, "risk_score", 0) = 3
    /\ "risk_factors" \in loc[1].analysis.keys
    /\ "immediate_action_needed" \in loc[1].analysis.keys

\* C8: whatever branch is taken and whatever fails, the caller of the chat
\* endpoint receives a non-empty reply with an intervention type and a
\* boolean crisis_detected.
C8_ReplyNeverEmpty ==
    \A p \in Turns :
        pc[p] = "done"
        => /\ loc[p].api.response # ""
           /\ loc[p].api.intervention # "none"
           /\ loc[p].api.crisis_detected \in BOOLEAN

\* C9: whenever the result of a turn has crisis_detected = true, the reply
\* contains the hotline block, whether or not the text generation, the
\* alert creation or the responder assignment succeeded.
C9_CrisisReplyHasHotline ==
    \A p \in Turns :
        /\ (pc[p] \in {"chat_api", "done"} /\ ~loc[p].result.raised
            /\ loc[p].result.crisis_detected)
           => loc[p].result.response \in HotlineTexts
        /\ (pc[p] = "done" /\ loc[p].api.crisis_detected)
           => loc[p].api.response \in HotlineTexts

C9_Witness ==
    /\ pc[1] = "done"
    /\ loc[1].api.crisis_detected
    /\ loc[1].crisis_result.kind = "error"

\* the fixed default assessment of section 4.1
IsFixedDefault(a) ==
    /\ a.kind = "object"
    /\ {"risk_score", "urgency_level", "conversation_needs", "risk_factors"} \subseteq a.keys
    /\ a.risk_score = 0
    /\ a.urgency_level = 3
    /\ a.conversation_needs = "support"
    /\ a.risk_factors = <<>>

\* C10: when the analysis call fails or its output cannot be parsed, the
\* Risk Assessor returns the fixed default assessment and raises
\* nothing to its caller.
C10_AnalysisFallsBack ==
    \A p \in Turns :
        loc[p].llm \in {"error", "malformed"}
        => /\ loc[p].raised_in # "comprehensive_analysis"
           /\ (pc[p] = "check_context_depth" => IsFixedDefault(loc[p].analysis))

\* C11: every assessment that reaches the Decision Router, and every
\* analysis returned in a turn's result, contains both risk_score and
\* urgency_level, whatever the service produced and also when the workflow
\* fails and the fallback result is used.
C11_ScoresAlwaysPresent ==
    \A p \in Turns :
        /\ pc[p] = "routing"
           => {"risk_score", "urgency_level"} \subseteq loc[p].analysis.keys
        /\ (pc[p] \in {"chat_api", "done"} /\ ~loc[p].result.raised)
           => {"risk_score", "urgency_level"} \subseteq loc[p].result.analysis.keys

\* the generic fallback texts of the engine
GenericFallbackTexts ==
    {WorkflowFallbackText, ApiFallbackText, "Tell me more about that."}
    \cup {ContextualFallback(es) : es \in {"stressed", "neutral"}}

\* C12: when the text-generation service is unavailable for a whole turn,
\* no exception reaches the caller, the assessment defaults to
\* risk_score = 0, the Decision Router output is respond, no CrisisAlert is
\* created and the reply is the generic fallback text.
C12_ServiceUnavailable ==
    \A p \in Turns :
        (loc[p].llm = "error" /\ pc[p] \in {"chat_api", "done"})
        => /\ ~loc[p].result.raised
           /\ "risk_score" \in loc[p].result.analysis.keys
           /\ loc[p].result.analysis.risk_score = 0
           /\ loc[p].route = "respond"
           /\ alerts = <<>>
           /\ loc[p].result.response \in GenericFallbackTexts

\* C13: for the turn text 'I want to kill myself' with no prior history the
\* assessment has risk_score >= 7 (also when the service gives no usable
\* output), the Decision Router returns crisis, the alert is of type
\* SUICIDE_IDEATION with risk level at least HIGH, and the reply contains the
\* hotline text.
C13_KillMyselfIsCrisis ==
    \A p \in Turns :
        (/\ loc[p].message = "I want to kill myself"
         /\ loc[p].next_order = 1
         /\ summaries = <<>>
         /\ pc[p] = "done")
        => /\ Get(loc[p].result.analysis, "risk_score", 0) >= 7
           /\ loc[p].route = "crisis"
           /\ loc[p].alert # Null
              => /\ alerts[loc[p].alert].crisis_type = "suicide_ideation"
                 /\ alerts[loc[p].alert].risk_level \in HighOrCritical
           /\ loc[p].api.response \in HotlineTexts

(***************************************************************************)
(* Claims about the responder assignment                                   *)
(***************************************************************************)
\* the assignment of the turn returned 'no assignment'
Unassigned(p) ==
    /\ pc[p] \in {"notify", "crisis_reply", "finalize"}
    /\ loc[p].alert # Null
    /\ loc[p].cands = <<>>

\* C14: when no active or busy responder of the college exists, the
\* assignment returns 'no assignment' without raising; the alert stays
\* pending with assigned_therapist_id null and carries the marker
\* no_therapists_available, and the user receives the crisis-resources reply.
C14_UnassignedIsMarked ==
    \A p \in Turns :
        Unassigned(p)
        => LET row == alerts[loc[p].alert] IN
           /\ loc[p].crisis_result.kind # "error"
           /\ row.status = "pending"
           /\ row.assigned_therapist_id = Null
           /\ "no_therapists_available" \in row.response_actions
           /\ pc[p] = "finalize" => loc[p].reply = CrisisUnavailableText

\* assignment_score = workload - specialization_score * role_priority in
\* exact decimal arithmetic, in tenths
ExactScore(w) == 10 * w.workload - w.specialization_score.t * w.role_priority

\* the first candidate, in candidate-list order, whose score is minimal
FirstMinimal(ws) ==
    CHOOSE i \in 1..Len(ws) :
        /\ \A j \in 1..Len(ws) : ExactScore(ws[i]) <= ExactScore(ws[j])
        /\ \A j \in 1..(i - 1) : ExactScore(ws[j]) > ExactScore(ws[i])

\* C15: for a non-empty candidate list the responder bound to the alert is
\* one whose assignment_score = workload - specialization_score *
\* role_priority is minimal, and among several candidates sharing the
\* minimum the first in candidate-list order.
C15_MinimalScoreFirstWins ==
    \A p \in Turns :
        Committed(p)
        => LET ws == loc[p].workloads IN
           /\ Len(ws) = Len(loc[p].cands)
           /\ \A i \in 1..Len(ws) : ws[i].therapist = loc[p].cands[i]
           /\ alerts[loc[p].alert].assigned_therapist_id = ws[FirstMinimal(ws)].therapist

\* specialization_score as the design states it, in tenths
SpecializationTenths(tags, crisis_type, analysis) ==
    10 * Cardinality({k \in crisis_matches(crisis_type) : InTags(k, tags)})
    + (IF InTags("crisis", tags) \/ InTags("emergency", tags) \/ InTags("trauma", tags)
       THEN 5 ELSE 0)
    + (IF Get(analysis, "cognitive_distortions", <<>>) # <<>> /\ InTags("cbt", tags)
       THEN 3 ELSE 0)

\* C16: specialization_score is 1.0 for each keyword of the crisis type's
\* keyword set found in the responder's tags, plus 0.5 if any of crisis,
\* emergency, trauma is present, plus 0.3 if cognitive distortions were
\* detected and cbt is a tag; role_priority is 3 for a crisis specialist and
\* 2 for a psychologist or psychiatrist when the risk level is HIGH or
\* CRITICAL, and 1 in every other case.
C16_ScoreComponents ==
    \A p \in Turns : \A i \in 1..Len(loc[p].workloads) :
        LET w == loc[p].workloads[i]
            row == alerts[loc[p].alert]
            t == therapists[w.therapist]
        IN  /\ w.specialization_score
                 = FLit(SpecializationTenths(t.tags, row.crisis_type, loc[p].analysis))
            /\ w.role_priority
                 = IF row.risk_level \in {"high", "critical"} /\ t.role = "crisis_specialist"
                   THEN 3
                   ELSE IF row.risk_level \in {"high", "critical"}
                           /\ t.role \in {"psychologist", "psychiatrist"}
                   THEN 2
                   ELSE 1

C16_Witness ==
    \E p \in Turns : \E i, j \in 1..Len(loc[p].workloads) :
        /\ loc[p].workloads[i].specialization_score.t = 13
        /\ loc[p].workloads[i].role_priority = 2
        /\ loc[p].workloads[j].specialization_score.t = 8
        /\ loc[p].workloads[j].role_priority = 3

\* the two events scored the same candidates against the same workloads,
\* crisis type, risk level and assessment
SameScoringInputs ==
    /\ loc[1].cands = loc[2].cands
    /\ Len(loc[1].workloads) = Len(loc[2].workloads)
    /\ \A i \in 1..Len(loc[1].workloads) :
          loc[1].workloads[i].workload = loc[2].workloads[i].workload
    /\ alerts[loc[1].alert].crisis_type = alerts[loc[2].alert].crisis_type
    /\ alerts[loc[1].alert].risk_level = alerts[loc[2].alert].risk_level
    /\ loc[1].analysis = loc[2].analysis

C18_AssignmentStatus ==
    [][\A p \in Turns :
          (pc[p] = "commit_assign" /\ pc'[p] = "notify")
          => LET row == alerts'[loc[p].alert] IN
             /\ row.assigned_therapist_id = loc'[p].assigned
             /\ row.assigned_therapist_id # Null
             /\ IF row.risk_level \in {"high", "critical"}
                THEN row.status = "acknowledged" /\ row.acknowledged_at # Null
                ELSE row.status = "pending" /\ row.acknowledged_at = Null]_vars

C18_Witness ==
    \E a, b \in 1..Len(alerts) :
        /\ alerts[a].risk_level = "high"
        /\ alerts[a].assigned_therapist_id # Null
        /\ alerts[a].status = "acknowledged"
        /\ alerts[b].risk_level = "medium"
        /\ alerts[b].assigned_therapist_id # Null
        /\ alerts[b].status = "pending"

(***************************************************************************)
(* Claims about the Crisis Classifier                                      *)
(***************************************************************************)
\* LOW < MEDIUM < HIGH < CRITICAL
LevelRank(level) ==
    CASE level = "low" -> 0 [] level = "medium" -> 1
      [] level = "high" -> 2 [] level = "critical" -> 3

BaseRank(risk_score) ==
    IF risk_score >= 9 THEN 3 ELSE IF risk_score >= 7 THEN 2
    ELSE IF risk_score >= 4 THEN 1 ELSE 0

\* the rank of the level the design prescribes
ExpectedRank(analysis) ==
    LET base == BaseRank(Get(analysis, "risk_score", 0))
        bumped == IF Get(analysis, "immediate_action_needed", FALSE) /\ base <= 1
                  THEN base + 1 ELSE base
        severe == AnyIn({"suicide", "kill", "death", "hurt myself", "end it all"},
                        Get(analysis, "risk_factors", <<>>))
    IN  IF severe /\ bumped < 2 THEN 2 ELSE bumped

\* C19: the alert's risk level is the base level from risk_score (>= 9
\* CRITICAL, >= 7 HIGH, >= 4 MEDIUM, else LOW) after the two overrides:
\* immediate_action_needed bumps LOW to MEDIUM or MEDIUM to HIGH, and a
\* high-severity keyword in risk_factors forces at least HIGH; the final
\* level is never below the base level.
C19_RiskLevel ==
    \A p \in Turns :
        loc[p].alert # Null
        => LET level == alerts[loc[p].alert].risk_level IN
           /\ LevelRank(level) = ExpectedRank(loc[p].analysis)
           /\ LevelRank(level) >= BaseRank(Get(loc[p].analysis, "risk_score", 0))

C19_Witness ==
    \E p \in Turns :
        /\ loc[p].alert # Null
        /\ Get(loc[p].analysis, "risk_score", 0) = 10
        /\ Get(loc[p].analysis, "risk_factors", <<>>) = <<"kill myself">>
        /\ alerts[loc[p].alert].risk_level = "critical"

\* the keyword sets of the design, in their order
StatedCrisisType(text) ==
    IF AnyIn({"suicide", "kill", "death", "die", "end it all"}, text)
        THEN "suicide_ideation"
    ELSE IF AnyIn({"self-harm", "cutting", "hurt myself"}, text) THEN "self_harm"
    ELSE IF AnyIn({"panic", "can't breathe"}, text) THEN "anxiety_panic"
    ELSE IF AnyIn({"substance", "alcohol", "drugs"}, text) THEN "substance_abuse"
    ELSE IF AnyIn({"eating", "food", "weight"}, text) THEN "eating_disorder"
    ELSE "severe_depression"

\* the text the classifier looks at
FactorsText(analysis) ==
    Get(analysis, "risk_factors", <<>>) \o Get(analysis, "main_concerns", <<>>)

\* C20 as stated: the crisis type is the first match in the order
\* SUICIDE_IDEATION (suicide, kill, death, die, end it all), SELF_HARM
\* (self-harm, cutting, hurt myself), ANXIETY_PANIC (panic, can't breathe),
\* SUBSTANCE_ABUSE (substance, alcohol, drugs), EATING_DISORDER (eating,
\* food, weight), otherwise SEVERE_DEPRESSION.
C20_StatedKeywords ==
    \A p \in Turns :
        loc[p].alert # Null
        => alerts[loc[p].alert].crisis_type = StatedCrisisType(FactorsText(loc[p].analysis))

\* the keyword sets with the keywords the statement leaves out
AmendedCrisisType(text) ==
    IF AnyIn({"suicide", "kill", "death", "die", "end it all"}, text)
        THEN "suicide_ideation"
    ELSE IF AnyIn({"self-harm", "cut", "hurt myself", "harm myself"}, text)
        THEN "self_harm"
    ELSE IF AnyIn({"panic", "anxiety attack", "can't breathe"}, text)
        THEN "anxiety_panic"
    ELSE IF AnyIn({"substance", "alcohol", "drugs", "drinking"}, text)
        THEN "substance_abuse"
    ELSE IF AnyIn({"eating", "food", "weight", "starving"}, text)
        THEN "eating_disorder"
    ELSE "severe_depression"

\* C20 amended: the same first-match rule with the keyword sets SELF_HARM
\* (self-harm, cut, hurt myself, harm myself), ANXIETY_PANIC (panic, anxiety
\* attack, can't breathe), SUBSTANCE_ABUSE (substance, alcohol, drugs,
\* drinking), EATING_DISORDER (eating, food, weight, starving); input with
\* both 'kill myself' and 'cutting' is SUICIDE_IDEATION.
C20_FirstMatch ==
    \A p \in Turns :
        loc[p].alert # Null
        => alerts[loc[p].alert].crisis_type = AmendedCrisisType(FactorsText(loc[p].analysis))

C20_Witness ==
    \E p \in Turns :
        /\ loc[p].alert # Null
        /\ Get(loc[p].analysis, "risk_factors", <<>>) = <<"cutting", "kill myself">>
        /\ alerts[loc[p].alert].crisis_type = "suicide_ideation"

(***************************************************************************)
(* Claims about the context depth and the pattern detector                 *)
(***************************************************************************)
DepthRank(depth) ==
    CASE depth = "shallow" -> 1
      [] depth = "moderate" -> 2
      [] depth = "deep" -> 3

StatedDepth(n) ==
    CASE n < 3 -> "shallow"
      [] 3 <= n /\ n < 8 -> "moderate"
      [] n >= 8 -> "deep"

\* the turn passes the context-depth node
ChecksDepth(p) == pc[p] = "check_context_depth" /\ pc'[p] = "detect_patterns"

\* C21: the context depth is the threshold function of the session's turn
\* count n (shallow below 3, moderate from 3 and below 8, deep from 8), it
\* never decreases when n grows, and a session that does not exist counts as
\* n = 0.
C21_ContextDepth ==
    [][\A p \in Turns :
          ChecksDepth(p) =>
              LET n == IF total_messages = NoSession THEN 0 ELSE total_messages
              IN  /\ loc'[p].message_count = n
                  /\ loc'[p].context_depth = StatedDepth(n)
                  /\ \A m \in 0..n :
                        DepthRank(ContextDepth(m)) <= DepthRank(loc'[p].context_depth)]_vars

\* a turn found its session deleted and was given the depth of n = 0
C21_Witness ==
    \E p \in Turns :
        /\ pc[p] = "detect_patterns"
        /\ total_messages = NoSession
        /\ loc[p].message_count = 0
        /\ loc[p].context_depth = "shallow"

\* the fixed vocabulary of the Pattern Detector
ThemeVocabulary == {"exam anxiety", "perfectionism", "study stress",
                    "fear of failure", "overwhelmed"}

\* the selections of at most 3 of the user's summaries, as sets of positions
ConsultedSets ==
    {c \in SUBSET (1..Len(summaries)) :
        Cardinality(c) <= 3 /\ (Len(summaries) >= 3 => Cardinality(c) = 3)
                            /\ (Len(summaries) < 3 => Cardinality(c) = Len(summaries))}

\* the theme occurs in the text of the consulted summaries: inside one of
\* them, or across the blank that joins two of them
OccursInConsulted(theme, c) ==
    \/ \E i \in c : theme \in summaries[i].themes
    \/ \E i, j \in c : i # j /\ theme \in AcrossJoin(summaries[i].ends, summaries[j].starts)

\* the turn passes the pattern detector
DetectsPatterns(p) == pc[p] = "detect_patterns" /\ pc'[p] = "routing"

Begins(p) == pc[p] = "start" /\ pc'[p] # "start"

\* the turn has begun and its reply is not yet committed
InProcess(p) == pc[p] \notin {"idle", "start", "chat_api", "done"}

\* the orders persisted for the session are unique and contiguous and the
\* counter equals the number of persisted messages
OrdersConsistent ==
    /\ \A m, n \in messages : m.message_order = n.message_order => m = n
    /\ {m.message_order : m \in messages} = 1..Cardinality(messages)
    /\ total_messages = Cardinality(messages)

\* C23: turns of one session are processed strictly in arrival order: the
\* second of two concurrent turns does not begin before the first has
\* committed its user message, its assessment and its reply; the persisted
\* message_order values are unique and contiguous and total_messages is the
\* number of persisted messages.
C23_SameSessionInOrder ==
    /\ [][\A p \in Turns : Begins(p) => \A q \in Turns \ {p} : ~InProcess(q)]_vars
    /\ []OrdersConsistent

(***************************************************************************)
(* Claims about the text-generation service                                *)
(***************************************************************************)
\* C24: every turn eventually yields a reply, also when the text-generation
\* service never answers: a call is given up after a bounded wait and the
\* turn goes on with its fallback.
C24_EveryTurnReplies ==
    \A p \in Turns : (pc[p] = "comprehensive_analysis") ~> (pc[p] = "done")

(***************************************************************************)
(* Claims about the crisis event of a turn                                 *)
(***************************************************************************)
\* the router chose crisis for the turn and the escalation node has ended
CrisisTurnHandled(p) ==
    loc[p].route = "crisis" /\ pc[p] \in {"finalize", "chat_api", "done"}

AlertsOfTurn(p) == {a \in 1..Len(alerts) : alerts[a].user_id = p}

\* no step removes a row of crisis_alerts or hands it to another user
AlertsKept ==
    /\ Len(alerts') >= Len(alerts)
    /\ \A a \in 1..Len(alerts) : alerts'[a].user_id = alerts[a].user_id

\* C25: each turn routed to crisis creates exactly one CrisisAlert and no
\* operation deletes an alert; when the assignment or the notification fails
\* after the alert was created, the alert stays persisted and the reply of
\* the turn is the crisis reply.
C25_OneAlertPerCrisisTurn ==
    /\ [][AlertsKept]_vars
    /\ [](\A p \in Turns :
            CrisisTurnHandled(p) =>
                /\ Cardinality(AlertsOfTurn(p)) = 1
                /\ loc[p].reply \in HotlineTexts)

(***************************************************************************)
(* Claims about the entry points and the result of a turn                  *)
(***************************************************************************)
RouterDecisions == {"crisis", "cbt", "respond"}

\* C26: every user turn persisted through POST /chat/{user_id}/{session_id}
\* or POST /messages/send went through the Risk Assessor and the Decision
\* Router before its reply was produced: no reply is stored that was
\* produced without a routing decision.
C26_EveryReplyRouted ==
    \A m \in messages :
        (m.role = "assistant" /\ m.entry \in {"chat", "send"})
            => m.route \in RouterDecisions

(***************************************************************************)
(* Claims about the alert store                                            *)
(***************************************************************************)
\* C27: in every reachable state a CrisisAlert has a non-null resolved_at
\* if and only if its status is resolved.
C27_ResolvedAtIffResolved ==
    \A a \in 1..Len(alerts) :
        (alerts[a].resolved_at # Null) <=> (alerts[a].status = "resolved")

SessionsOfAlert(a) == {s \in 1..Len(sessions) : sessions[s].crisis_alert_id = a}

\* C29: at most one TherapistSession is linked to a CrisisAlert: a second
\* creation for the same alert is rejected, through whichever of the
\* session-creating operations it comes.
C29_OneSessionPerAlert ==
    \A a \in 1..Len(alerts) : Cardinality(SessionsOfAlert(a)) <= 1

(***************************************************************************)
(* Claims about the metadata of a turn's result                            *)
(***************************************************************************)
AlertAttempted(p) == loc[p].crisis_result.kind # "none"

\* C28: the metadata of a turn's result is consistent with the branch taken:
\* crisis_detected is true if and only if the router chose crisis, that is if
\* and only if intervention_type is crisis_escalation and a crisis alert was
\* attempted for the turn.
C28_MetadataMatchesBranch ==
    \A p \in Turns :
        (pc[p] \in {"chat_api", "done"} /\ ~loc[p].result.raised)
            => /\ loc[p].result.crisis_detected <=> (loc[p].route = "crisis")
               /\ (loc[p].route = "crisis")
                      <=> /\ loc[p].result.intervention_type = "crisis_escalation"
                          /\ AlertAttempted(p)

\* The second equivalence of C28 taken alone.
C28_BranchMatchesIntervention ==
    \A p \in Turns :
        (pc[p] \in {"chat_api", "done"} /\ ~loc[p].result.raised)
            => ((loc[p].route = "crisis")
                   <=> /\ loc[p].result.intervention_type = "crisis_escalation"
                       /\ AlertAttempted(p))

(***************************************************************************)
(* SpecWorkload: two crisis events of one user while the staff resolve     *)
(* alerts and complete and cancel sessions.  Each request is               *)
(* handled between two steps of the event loop.                            *)
(***************************************************************************)
InitWorkload ==
    /\ alerts = <<>>
    /\ sessions \in InitialSessionTables
    /\ clock = 1
    /\ response = NoResponse
    /\ therapists \in LifecycleTherapists
    /\ total_messages = 1
    /\ summaries = <<>>
    /\ messages = History(1)
    /\ pc = [p \in Turns |-> "handle_crisis"]
    /\ \E a \in LifecycleAnalyses : loc = [p \in Turns |-> InitLoc(a)]

NextWorkload ==
    \/ \E p \in Turns : CrisisStep(p)
    \/ Resolve
    \/ CompleteSession
    \/ CancelSession

SpecWorkload == InitWorkload /\ [][NextWorkload]_vars

(***************************************************************************)
(* Claims about the workload of a responder                                *)
(***************************************************************************)
Candidate(p) == loc[p].cands[loc[p].idx]

CountsCrises(p) == pc[p] = "count_crisis" /\ pc'[p] = "count_sessions"

CountsSessions(p) == pc[p] = "count_sessions" /\ pc'[p] # "count_sessions"

OpenAlertsOf(t) ==
    {a \in 1..Len(alerts) :
        /\ alerts[a].assigned_therapist_id = t
        /\ alerts[a].status \in {"pending", "acknowledged", "escalated"}}

OpenSessionsOf(t) ==
    {s \in 1..Len(sessions) :
        /\ sessions[s].external_therapist_id = t
        /\ sessions[s].status \in {"scheduled", "in_progress"}}

====
